---------------------------- MODULE Spec2Model ----------------------------
(***************************************************************************)
(* Model of the conventional-commit parser of mkcmt (src/src/commit.rs).   *)
(*                                                                         *)
(* A text is a sequence of one-character strings.  CommitMessage::parse is *)
(* a pure function; the state machine draws an input text from a bounded   *)
(* set and applies parse to it.  The outcome of a call is one of           *)
(*   [kind |-> "ok", commit_type, scope, description, body, footer,        *)
(*    breaking]            Ok(CommitMessage {..})                          *)
(*   [kind |-> "err", msg] Err(String)                                     *)
(*   [kind |-> "panic"]    the call panicked (slice index out of order)    *)
(* Option<String> is a sequence of length 0 (None) or 1 (Some(text)).      *)
(*                                                                         *)
(* changelog holds what get_changelog (src/src/changelog.rs) returned to   *)
(* the caller, chat the state of chat_loop (src/src/main.rs).              *)
(***************************************************************************)
EXTENDS Integers, Sequences, FiniteSets, TLC

VARIABLES input, pc, result, changelog, chat

vars == <<input, pc, result, changelog, chat>>

(* ------------------------------ bounds --------------------------------- *)

\* longest input text that is enumerated
MaxLen == 6

\* the characters of the enumerated inputs: a letter, the two whitespace
\* characters, the three header delimiters and the breaking-change marker
Alphabet == {"a", " ", "\n", ":", "(", ")", "!"}

Texts == UNION {[1..n -> Alphabet] : n \in 0..MaxLen}

(* ------------------------- std::str primitives ------------------------- *)

\* Option<T>
None == <<>>

Some(x) == <<x>>

\* char::is_whitespace, restricted to the alphabet
IsWhitespace(c) == c \in {" ", "\n"}

\* str::find(char): 0-based index of the first occurrence, -1 for None
Find(s, c) ==
    IF \E i \in 1..Len(s) : s[i] = c
    THEN (CHOOSE i \in 1..Len(s) : s[i] = c /\ \A j \in 1..(i - 1) : s[j] # c) - 1
    ELSE -1

\* str::rfind(char): 0-based index of the last occurrence, -1 for None
RFind(s, c) ==
    IF \E i \in 1..Len(s) : s[i] = c
    THEN (CHOOSE i \in 1..Len(s) :
             s[i] = c /\ \A j \in (i + 1)..Len(s) : s[j] # c) - 1
    ELSE -1

\* str::contains(char)
Contains(s, c) == \E i \in 1..Len(s) : s[i] = c

\* &s[a..b] for 0-based a <= b <= len
Slice(s, a, b) == SubSeq(s, a + 1, b)

\* str::trim_start
RECURSIVE TrimStart(_)
TrimStart(s) ==
    IF s # <<>> /\ IsWhitespace(Head(s)) THEN TrimStart(Tail(s)) ELSE s

\* str::trim_end
RECURSIVE TrimEnd(_)
TrimEnd(s) ==
    IF s # <<>> /\ IsWhitespace(s[Len(s)])
    THEN TrimEnd(SubSeq(s, 1, Len(s) - 1))
    ELSE s

\* str::trim
Trim(s) == TrimEnd(TrimStart(s))

\* FindSep as it would be if split took the pattern "\n" for "\n\n"
FindSep_SingleNewline(s) == Find(s, "\n")

\* 0-based index of the first "\n\n" in s, -1 if there is none
FindSep(s) ==
    IF \E i \in 1..(Len(s) - 1) : s[i] = "\n" /\ s[i + 1] = "\n"
    THEN (CHOOSE i \in 1..(Len(s) - 1) :
             /\ s[i] = "\n" /\ s[i + 1] = "\n"
             /\ \A j \in 1..(i - 1) : ~(s[j] = "\n" /\ s[j + 1] = "\n")) - 1
    ELSE -1

\* Split dropping the section that an empty remainder would give, so that
\* the empty text has no section at all
RECURSIVE Split_SkipEmpty(_)
Split_SkipEmpty(s) ==
    IF s = <<>>
    THEN <<>>
    ELSE LET i == FindSep(s)
         IN  IF i = -1
             THEN <<s>>
             ELSE <<Slice(s, 0, i)>> \o Split_SkipEmpty(Slice(s, i + 2, Len(s)))

\* input.split("\n\n").collect(): non-overlapping matches, left to right
RECURSIVE Split(_)
Split(s) ==
    LET i == FindSep(s)
    IN  IF i = -1
        THEN <<s>>
        ELSE <<Slice(s, 0, i)>> \o Split(Slice(s, i + 2, Len(s)))

(* ------------------------------ results -------------------------------- *)

Err(m) == [kind |-> "err", msg |-> m]

Panic == [kind |-> "panic"]

EmptyInput == "Empty commit message"

MissingColon == "Missing ':' in header"

MissingClosingParen == "Missing closing ')' in header"

EmptyScope == "Empty scope in header"

(* --------------------------- parse_header ------------------------------ *)

\* DescriptionOf without the [1..] that skips the colon
DescriptionOf_KeepColon(header, colon_index) ==
    Trim(Slice(header, colon_index, Len(header)))

\* DescriptionOf without the trim()
DescriptionOf_Untrimmed(header, colon_index) ==
    Slice(header, colon_index + 1, Len(header))

\* description[1..].trim(): the text after the colon, trimmed
DescriptionOf(header, colon_index) ==
    Trim(Slice(header, colon_index + 1, Len(header)))

\* ScopedHeader keeping the text after the ')' as part of the type
ScopedHeader_SuffixInType(meta, start, description) ==
    LET end == Find(meta, ")")
    IN  IF end = -1
        THEN Err(MissingClosingParen)
        ELSE IF start + 1 > end
        THEN Panic
        ELSE LET commit_type == Trim(Slice(meta, 0, start)
                                         \o Slice(meta, end + 1, Len(meta)))
                 scope == Trim(Slice(meta, start + 1, end))
             IN  IF scope = <<>>
                 THEN Err(EmptyScope)
                 ELSE [kind |-> "ok", commit_type |-> commit_type,
                       scope |-> Some(scope), description |-> description]

\* the branch of parse_header taken when meta contains '('
ScopedHeader(meta, start, description) ==
    LET end == Find(meta, ")")
    IN  IF end = -1
        THEN Err(MissingClosingParen)
        ELSE IF start + 1 > end
        THEN Panic  \* meta[start + 1..end] with begin > end
        ELSE LET commit_type == Trim(Slice(meta, 0, start))
                 scope == Trim(Slice(meta, start + 1, end))
             IN  IF scope = <<>>
                 THEN Err(EmptyScope)
                 ELSE [kind |-> "ok", commit_type |-> commit_type,
                       scope |-> Some(scope), description |-> description]

\* the branch of parse_header taken when meta contains no '('
UnscopedHeader(meta, description) ==
    [kind |-> "ok", commit_type |-> Trim(meta),
     scope |-> None, description |-> description]

\* ParseHeader taking a header without ':' as a bare type
ParseHeader_ColonOptional(header) ==
    LET colon_index == Find(header, ":")
    IN  IF colon_index = -1
        THEN UnscopedHeader(header, <<>>)
        ELSE LET meta == Slice(header, 0, colon_index)
                 description == DescriptionOf(header, colon_index)
                 start == Find(meta, "(")
             IN  IF start # -1
                 THEN ScopedHeader(meta, start, description)
                 ELSE UnscopedHeader(meta, description)

\* ParseHeader looking for '(' in the whole header instead of in meta
ParseHeader_ParenAnywhere(header) ==
    LET colon_index == Find(header, ":")
    IN  IF colon_index = -1
        THEN Err(MissingColon)
        ELSE LET meta == Slice(header, 0, colon_index)
                 description == DescriptionOf(header, colon_index)
                 start == Find(header, "(")
             IN  IF start # -1
                 THEN ScopedHeader(meta, start, description)
                 ELSE UnscopedHeader(meta, description)

\* ParseHeader splitting at the last ':' of the header instead of the first
ParseHeader_LastColon(header) ==
    LET colon_index == RFind(header, ":")
    IN  IF colon_index = -1
        THEN Err(MissingColon)
        ELSE LET meta == Slice(header, 0, colon_index)
                 description == DescriptionOf(header, colon_index)
                 start == Find(meta, "(")
             IN  IF start # -1
                 THEN ScopedHeader(meta, start, description)
                 ELSE UnscopedHeader(meta, description)

\* CommitMessage::parse_header
ParseHeader(header) ==
    LET colon_index == Find(header, ":")
    IN  IF colon_index = -1
        THEN Err(MissingColon)
        ELSE LET meta == Slice(header, 0, colon_index)
                 description == DescriptionOf(header, colon_index)
                 start == Find(meta, "(")
             IN  IF start # -1
                 THEN ScopedHeader(meta, start, description)
                 ELSE UnscopedHeader(meta, description)

(* ------------------------------ changelog ------------------------------ *)

\* pub const TYPES
TYPES ==
    << <<"f", "e", "a", "t">>,
       <<"f", "i", "x">>,
       <<"d", "o", "c", "s">>,
       <<"s", "t", "y", "l", "e">>,
       <<"r", "e", "f", "a", "c", "t", "o", "r">>,
       <<"t", "e", "s", "t">>,
       <<"c", "h", "o", "r", "e">> >>

\* pub const SCOPES
SCOPES ==
    << <<"c", "o", "r", "e">>,
       <<"u", "i">>,
       <<"a", "p", "i">>,
       <<"b", "u", "i", "l", "d">>,
       <<"d", "o", "c", "s">>,
       <<"t", "e", "s", "t", "s">> >>

\* pub const BREAKING_CHANGE_MARKER
BREAKING_CHANGE_MARKER == <<"!">>

\* GetChangelog handing out the two lists in each other's place
GetChangelog_Swapped ==
    [kind |-> "changelog", types |-> SCOPES, scopes |-> TYPES,
     breaking_marker |-> BREAKING_CHANGE_MARKER]

\* get_changelog
GetChangelog ==
    [kind |-> "changelog", types |-> TYPES, scopes |-> SCOPES,
     breaking_marker |-> BREAKING_CHANGE_MARKER]

\* the elements of a slice
Range(seq) == {seq[i] : i \in 1..Len(seq)}

(* ------------------------------- parse --------------------------------- *)

\* the header handed to parse_header: parts[0].trim()
HeaderOf(parts) == Trim(parts[1])

\* BodyOf without the trim() of the stored text
BodyOf_Untrimmed(parts) ==
    IF Len(parts) > 1 /\ Trim(parts[2]) # <<>>
    THEN Some(parts[2])
    ELSE None

\* body: Some(parts[1].trim()) if the section exists and is not blank
BodyOf(parts) ==
    IF Len(parts) > 1 /\ Trim(parts[2]) # <<>>
    THEN Some(Trim(parts[2]))
    ELSE None

\* FooterOf reading the section at index 1 instead of index 2
FooterOf_FromBody(parts) ==
    IF Len(parts) > 1 /\ Trim(parts[2]) # <<>>
    THEN LET footer_text == Trim(parts[2])
         IN  <<Some(footer_text), Contains(footer_text, "!")>>
    ELSE <<None, FALSE>>

\* FooterOf taking the last section, wherever it is, for the footer
FooterOf_LastSection(parts) ==
    IF Len(parts) > 2 /\ Trim(parts[Len(parts)]) # <<>>
    THEN LET footer_text == Trim(parts[Len(parts)])
         IN  <<Some(footer_text), Contains(footer_text, "!")>>
    ELSE <<None, FALSE>>

\* (footer, breaking): from parts[2] if it exists and is not blank
FooterOf(parts) ==
    IF Len(parts) > 2 /\ Trim(parts[3]) # <<>>
    THEN LET footer_text == Trim(parts[3])
         IN  <<Some(footer_text), Contains(footer_text, "!")>>
    ELSE <<None, FALSE>>

\* Parse rejecting a commit type that is not one of TYPES
Parse_Validating(text) ==
    LET parts == Split(text)
    IN  IF parts = <<>>
        THEN Err(EmptyInput)
        ELSE LET h == ParseHeader(HeaderOf(parts))
             IN  IF h.kind # "ok"
                 THEN h
                 ELSE IF h.commit_type \notin Range(TYPES)
                 THEN Err("Unknown commit type")
                 ELSE [kind |-> "ok",
                       commit_type |-> h.commit_type,
                       scope |-> h.scope,
                       description |-> h.description,
                       body |-> BodyOf(parts),
                       footer |-> FooterOf(parts)[1],
                       breaking |-> FooterOf(parts)[2]]

\* CommitMessage::parse
Parse(text) ==
    LET parts == Split(text)
    IN  IF parts = <<>>
        THEN Err(EmptyInput)
        ELSE LET h == ParseHeader(HeaderOf(parts))
             IN  IF h.kind # "ok"
                 THEN h
                 ELSE [kind |-> "ok",
                       commit_type |-> h.commit_type,
                       scope |-> h.scope,
                       description |-> h.description,
                       body |-> BodyOf(parts),
                       footer |-> FooterOf(parts)[1],
                       breaking |-> FooterOf(parts)[2]]

(* --------------------------- state machine ----------------------------- *)

NotCalled == [kind |-> "none"]

\* get_changelog has not been called
NotFetched == [kind |-> "none"]

\* chat_loop is not running
ChatIdle == [pc |-> "idle"]

\* the parser is about to be called on input; nothing else is running
ParserReady ==
    /\ pc = "ready"
    /\ result = NotCalled
    /\ changelog = NotFetched
    /\ chat = ChatIdle

Init ==
    /\ input \in Texts
    /\ ParserReady

\* the caller invokes CommitMessage::parse(input)
CallParse ==
    /\ pc = "ready"
    /\ result' = Parse(input)
    /\ pc' = "done"
    /\ UNCHANGED <<input, changelog, chat>>

Next == CallParse

Spec == Init /\ [][Next]_vars

(* ---------------- inputs made of blank-line separated parts ------------ *)

\* longest first part, longest further part, and number of further parts
MaxHeaderLen == 1

MaxSectionLen == 1

MaxExtra == 3

\* the characters of the further parts
SectionAlphabet == {"a", "!", "\n"}

HeaderTexts == UNION {[1..n -> Alphabet] : n \in 0..MaxHeaderLen}

SectionTexts == UNION {[1..n -> SectionAlphabet] : n \in 0..MaxSectionLen}

\* the first part followed by the further parts, each after a "\n\n"
RECURSIVE Assemble(_, _)
Assemble(first, further) ==
    IF further = <<>>
    THEN first
    ELSE Assemble(first \o <<"\n", "\n">> \o Head(further), Tail(further))

InitSections ==
    /\ \E first \in HeaderTexts, n \in 0..MaxExtra :
           \E further \in [1..n -> SectionTexts] :
               input = Assemble(first, further)
    /\ ParserReady

SpecSections == InitSections /\ [][Next]_vars

(* -------------- well-formed messages and the taxonomy ------------------ *)

\* longest made-up type or scope word
MaxWordLen == 3

\* the non-empty words over the letters cs of length up to MaxWordLen
Words(cs) == UNION {[1..n -> cs] : n \in 1..MaxWordLen}

\* commit types and scopes a message may use: the listed ones and made-up
\* words (among them the listed "fix" and "ui")
TypeCandidates == Range(TYPES) \cup Words({"f", "i", "x"})

ScopeCandidates ==
    {None} \cup {Some(w) : w \in Range(SCOPES) \cup Words({"u", "i"})}

\* what may follow the header: nothing, or a body and a footer without or
\* with the marker
Tails ==
    { <<>>,
      <<"\n", "\n", "b", "\n", "\n", "f">>,
      <<"\n", "\n", "b", "\n", "\n", "f", "!">> }

\* the message type(scope): x or type: x followed by tail
Compose(type, scope, tail) ==
    type \o (IF scope = None THEN <<>> ELSE <<"(">> \o scope[1] \o <<")">>)
         \o <<":", " ", "x">> \o tail

InitTaxonomy ==
    /\ input \in {Compose(t, s, tail) :
                      t \in TypeCandidates, s \in ScopeCandidates, tail \in Tails}
    /\ ParserReady

\* a caller invokes get_changelog()
CallGetChangelog ==
    /\ changelog = NotFetched
    /\ changelog' = GetChangelog
    /\ UNCHANGED <<input, pc, result, chat>>

NextTaxonomy == CallParse \/ CallGetChangelog

SpecTaxonomy == InitTaxonomy /\ [][NextTaxonomy]_vars

(* ------------------------------ chat_loop ------------------------------ *)
(* A prompt is a sequence of words; "<GIT_DIFF>" is the placeholder and a   *)
(* diff is one word.  chat.queries lists the prompts of the commit-message  *)
(* requests handed to exec_chat, chat.suggestions and chat.prompts what was *)
(* appended to output_cc_suggestions.txt and output_cc_prompts.txt.         *)

\* most commit-message requests of one run that are followed
MaxRounds == 3

\* the diffs chat_loop may be started with
Diffs == {<<"diffA">>, <<"diffB", "<GIT_DIFF>">>}

\* prompt_template
PromptTemplate == <<"Generate", "<GIT_DIFF>">>

\* content_text_as_str() of a reply to the commit-message request
Replies ==
    {None, Some(<<"feat: x">>), Some(<<"[backtick]", "fix: y", "[backtick]">>)}

\* content_text_as_str() of a reply to the refinement request
Refinements ==
    {None, Some(<<"Improved", "<GIT_DIFF>">>), Some(<<"Improved">>)}

\* a call returns Ok or Err
Outcomes == {"ok", "err"}

\* str::replace("<GIT_DIFF>", diff): every placeholder, in one pass
RECURSIVE ReplaceDiff(_, _)
ReplaceDiff(text, diff) ==
    IF text = <<>> THEN <<>>
    ELSE (IF Head(text) = "<GIT_DIFF>" THEN diff ELSE <<Head(text)>>)
             \o ReplaceDiff(Tail(text), diff)

\* str::replace of every backtick by nothing
RECURSIVE StripTicks(_)
StripTicks(text) ==
    IF text = <<>> THEN <<>>
    ELSE (IF Head(text) = "[backtick]" THEN <<>> ELSE <<Head(text)>>)
             \o StripTicks(Tail(text))

\* ActualPrompt as it would be if the refined prompt were taken up
ActualPrompt_Refined(c) ==
    IF c.refined = None
    THEN ReplaceDiff(PromptTemplate, c.diff)
    ELSE c.refined[1]

\* actual_prompt at the top of the loop
ActualPrompt(c) == ReplaceDiff(PromptTemplate, c.diff)

\* the ? operator on a failed call: chat_loop returns the error
ChatFailed(c) == [c EXCEPT !.pc = "exit", !.outcome = "err"]

\* chat_loop(diff_text) has been entered
ChatStarted(diff) ==
    [pc |-> "query", diff |-> diff, actual_prompt |-> <<>>,
     queries |-> <<>>, commit_message |-> <<>>, suggestions |-> <<>>,
     refined |-> None, prompts |-> <<>>, printed |-> <<>>,
     accepted |-> FALSE, clipboard |-> None, outcome |-> "running"]

InitChat ==
    /\ input = <<>>
    /\ pc = "ready"
    /\ result = NotCalled
    /\ changelog = NotFetched
    /\ chat \in {ChatStarted(d) : d \in Diffs}

\* build actual_prompt and the request, exec_chat, take the reply's text
QueryModel ==
    /\ chat.pc = "query"
    /\ Len(chat.queries) < MaxRounds
    /\ \E call \in Outcomes, reply \in Replies :
           LET prompt == ActualPrompt(chat)
               asked == [chat EXCEPT !.actual_prompt = prompt,
                                     !.queries = Append(@, prompt)]
           IN  chat' =
                   IF call = "err"
                   THEN ChatFailed(asked)
                   ELSE [asked EXCEPT
                             !.pc = "log",
                             !.commit_message =
                                 StripTicks(IF reply = None
                                            THEN <<"No response.">>
                                            ELSE reply[1])]
    /\ UNCHANGED <<input, pc, result, changelog>>

\* log_output("output_cc_suggestions.txt", ..) and print the suggestion
LogSuggestion ==
    /\ chat.pc = "log"
    /\ \E call \in Outcomes :
           chat' =
               IF call = "err"
               THEN ChatFailed(chat)
               ELSE [chat EXCEPT
                         !.pc = "confirm",
                         !.suggestions = Append(@, chat.commit_message),
                         !.printed = Append(@, chat.commit_message)]
    /\ UNCHANGED <<input, pc, result, changelog>>

\* confirm_user_input("Accept this commit message? (y/n): ")
ConfirmAccept ==
    /\ chat.pc = "confirm"
    /\ \E call \in Outcomes, yes \in BOOLEAN :
           chat' =
               IF call = "err"
               THEN ChatFailed(chat)
               ELSE IF yes
               THEN [chat EXCEPT !.pc = "copy", !.accepted = TRUE]
               ELSE [chat EXCEPT !.pc = "refine"]
    /\ UNCHANGED <<input, pc, result, changelog>>

\* confirm_user_input("Copy commit message to clipboard? (y/n): "), the
\* clipboard, and the break out of the loop
CopyToClipboard ==
    /\ chat.pc = "copy"
    /\ \E call \in Outcomes, yes \in BOOLEAN, clip \in Outcomes :
           chat' =
               IF call = "err" \/ (yes /\ clip = "err")
               THEN ChatFailed(chat)
               ELSE [chat EXCEPT
                         !.pc = "exit",
                         !.outcome = "ok",
                         !.clipboard = IF yes THEN Some(chat.commit_message)
                                       ELSE @]
    /\ UNCHANGED <<input, pc, result, changelog>>

\* the refinement request with actual_prompt, exec_chat, and the reply's
\* text (or prompt_template) with the diff put in
RefinePrompt ==
    /\ chat.pc = "refine"
    /\ \E call \in Outcomes, reply \in Refinements :
           chat' =
               IF call = "err"
               THEN ChatFailed(chat)
               ELSE [chat EXCEPT
                         !.pc = "logprompt",
                         !.refined =
                             Some(ReplaceDiff(IF reply = None
                                              THEN PromptTemplate
                                              ELSE reply[1], chat.diff))]
    /\ UNCHANGED <<input, pc, result, changelog>>

\* log_output("output_cc_prompts.txt", ..), print the refined prompt and
\* go round the loop
LogRefinedPrompt ==
    /\ chat.pc = "logprompt"
    /\ \E call \in Outcomes :
           chat' =
               IF call = "err"
               THEN ChatFailed(chat)
               ELSE [chat EXCEPT
                         !.pc = "query",
                         !.prompts = Append(@, chat.refined[1]),
                         !.printed = Append(@, chat.refined[1])]
    /\ UNCHANGED <<input, pc, result, changelog>>

NextChat ==
    \/ QueryModel
    \/ LogSuggestion
    \/ ConfirmAccept
    \/ CopyToClipboard
    \/ RefinePrompt
    \/ LogRefinedPrompt

SpecChat == InitChat /\ [][NextChat]_vars

(* ------------------- vocabulary shared by the claims ------------------- *)

\* the call has returned (or panicked)
Done == pc = "done"

\* the call returned Ok(CommitMessage)
Parsed == Done /\ result.kind = "ok"

\* the sections of the input and its header, the trimmed first section
Sections == Split(input)

Header == Trim(Sections[1])

\* the text of the header before its first ':' (when the header has a ':')
MetaPart == Slice(Header, 0, Find(Header, ":"))

\* the text of the header after its first ':' (when the header has a ':')
RestPart == Slice(Header, Find(Header, ":") + 1, Len(Header))

\* t contains none of the characters of cs
Free(t, cs) == \A i \in 1..Len(t) : t[i] \notin cs

(* -------------------------------- C1 ----------------------------------- *)

\* C1: for every input, parse returns a CommitMessage or an error value and
\* never panics, also when the text before the first ':' has a ')' before
\* its '('.  (Violated: meta[start + 1..end] panics when end < start.)
C1_NeverPanics == Done => result.kind \in {"ok", "err"}

(* -------------------------------- C2 ----------------------------------- *)

\* C2: whenever the header reads type(scope): description -- type free of
\* ':', '(' and ')', scope free of ':' and ')' and not blank, description
\* not blank -- parse succeeds and commit_type, scope and description are
\* exactly those three texts, trimmed.
C2_ScopedHeaderFields ==
    Done =>
        LET h == Header
        IN  \A i \in 1..Len(h) :
                h[i] = "(" =>
                    \A j \in (i + 1)..(Len(h) - 1) :
                        (h[j] = ")" /\ h[j + 1] = ":") =>
                            LET type == SubSeq(h, 1, i - 1)
                                scope == SubSeq(h, i + 1, j - 1)
                                description == SubSeq(h, j + 2, Len(h))
                            IN  ( /\ Free(type, {":", "(", ")"})
                                  /\ Free(scope, {":", ")"})
                                  /\ Trim(scope) # <<>>
                                  /\ Trim(description) # <<>> )
                                => /\ result.kind = "ok"
                                   /\ result.commit_type = Trim(type)
                                   /\ result.scope = Some(Trim(scope))
                                   /\ result.description = Trim(description)

\* a header of that form was parsed into three non-empty fields
C2_Witness ==
    /\ Parsed
    /\ \E i \in 1..Len(Header) :
           /\ Header[i] = "("
           /\ Free(SubSeq(Header, 1, i - 1), {":", "(", ")"})
    /\ result.commit_type # <<>>
    /\ result.scope # None
    /\ result.description # <<>>

(* -------------------------------- C3 ----------------------------------- *)

\* C3: in a parsed record, breaking is true exactly when the third section
\* of the split on a blank line exists, is not blank and contains '!'; a
\* '!' in the header or the body alone, a footer without '!' and a missing
\* third section all leave it false.
C3_BreakingIffFooterMarker ==
    Parsed =>
        ( result.breaking <=>
            /\ Len(Sections) >= 3
            /\ Trim(Sections[3]) # <<>>
            /\ Contains(Sections[3], "!") )

\* a record with breaking = true whose footer holds the marker
C3_Witness ==
    /\ Parsed
    /\ result.breaking
    /\ Len(Sections) >= 3
    /\ Contains(Sections[3], "!")

(* -------------------------------- C4 ----------------------------------- *)

\* C4: when the header (the trimmed first section) has no ':', parse fails
\* with "Missing ':' in header", whatever the rest of the input holds.
C4_MissingColon ==
    (Done /\ ~Contains(Header, ":")) => result = Err(MissingColon)

\* a colon-less header with parentheses, followed by further sections
C4_Witness ==
    /\ Done
    /\ ~Contains(Header, ":")
    /\ Contains(Header, "(")
    /\ Len(Sections) >= 2
    /\ result = Err(MissingColon)

(* -------------------------------- C5 ----------------------------------- *)

\* C5: when the header has a ':' and, in the text before the first ':', the
\* first '(' is not followed by a ')', parse fails with "Missing closing ')'
\* in header".  (Violated: the code looks for the first ')' of that text,
\* not the first one after the '(', and panics on a ')' before the '('.)
C5_MissingClosingParen ==
    ( /\ Done
      /\ Contains(Header, ":")
      /\ Contains(MetaPart, "(")
      /\ \A j \in (Find(MetaPart, "(") + 2)..Len(MetaPart) : MetaPart[j] # ")" )
    => result = Err(MissingClosingParen)

(* -------------------------------- C6 ----------------------------------- *)

\* C6: when the header has a ':' and, in the text before the first ':', the
\* first '(' and the first ')' after it enclose nothing or only whitespace,
\* parse fails with "Empty scope in header".  (Violated: a ')' before the
\* '(' makes the code panic instead.)
C6_EmptyScope ==
    ( /\ Done
      /\ Contains(Header, ":")
      /\ Contains(MetaPart, "(")
      /\ \E j \in (Find(MetaPart, "(") + 2)..Len(MetaPart) :
             /\ MetaPart[j] = ")"
             /\ \A k \in (Find(MetaPart, "(") + 2)..(j - 1) :
                    IsWhitespace(MetaPart[k]) )
    => result = Err(EmptyScope)

(* -------------------------------- C7 ----------------------------------- *)

\* C7: in every parsed record commit_type and description are non-empty.
\* (Violated: parse_header checks only the scope for emptiness.)
C7_TypeAndDescriptionNonEmpty ==
    Parsed => (result.commit_type # <<>> /\ result.description # <<>>)

(* -------------------------------- C8 ----------------------------------- *)

\* the canonical header text of a record: type(scope): description, or
\* type: description when the scope is None
Canonical(r) ==
    IF r.scope = None
    THEN r.commit_type \o <<":", " ">> \o r.description
    ELSE r.commit_type \o <<"(">> \o r.scope[1] \o <<")", ":", " ">>
             \o r.description

\* C8: parsing the canonical header text of a parsed record succeeds and
\* gives the same commit_type, scope and description.
C8_HeaderRoundTrip ==
    Parsed =>
        LET again == Parse(Canonical(result))
        IN  /\ again.kind = "ok"
            /\ again.commit_type = result.commit_type
            /\ again.scope = result.scope
            /\ again.description = result.description

\* a scoped record whose canonical text is not the header it was read from
C8_Witness ==
    /\ Parsed
    /\ result.scope # None
    /\ result.description # <<>>
    /\ Canonical(result) # Header

(* -------------------------------- C9 ----------------------------------- *)

\* C9: when the header has a ':' and the text before the first ':' has no
\* parenthesis, parse succeeds with scope None and commit_type the trimmed
\* text before that ':', also when the description has parentheses.
C9_UnscopedHeader ==
    ( /\ Done
      /\ Contains(Header, ":")
      /\ Free(MetaPart, {"(", ")"}) )
    => /\ result.kind = "ok"
       /\ result.scope = None
       /\ result.commit_type = Trim(MetaPart)

\* an unscoped record with a type and parentheses in its description
C9_Witness ==
    /\ Parsed
    /\ result.scope = None
    /\ result.commit_type # <<>>
    /\ Contains(result.description, "(")
    /\ Contains(result.description, ")")

(* -------------------------------- C10 ---------------------------------- *)

\* the text has no two consecutive line terminators
NoBlankLine(text) ==
    \A i \in 1..(Len(text) - 1) : ~(text[i] = "\n" /\ text[i + 1] = "\n")

\* C10: an input without two consecutive line terminators is one header
\* section: a parsed record has body None, footer None and breaking false,
\* even when a later line holds '!'.
C10_SingleNewlinesOneSection ==
    (Parsed /\ NoBlankLine(input)) =>
        /\ result.body = None
        /\ result.footer = None
        /\ ~result.breaking

\* a parsed input with a line break and a '!' on a later line
C10_Witness ==
    /\ Parsed
    /\ NoBlankLine(input)
    /\ \E i \in 1..Len(input), j \in 1..Len(input) :
           i < j /\ input[i] = "\n" /\ input[j] = "!"
    /\ ~result.breaking

(* -------------------------------- C11 ---------------------------------- *)

\* the first n sections of parts, put together again with "\n\n" between
RECURSIVE Join(_, _)
Join(parts, n) ==
    IF n <= 1 THEN parts[1]
    ELSE Join(parts, n - 1) \o <<"\n", "\n">> \o parts[n]

\* the input cut off after its section of index 2
FirstThree ==
    Join(Sections, IF Len(Sections) < 3 THEN Len(Sections) ELSE 3)

\* s without its leading and trailing whitespace characters
Stripped(s) ==
    IF \A i \in 1..Len(s) : IsWhitespace(s[i])
    THEN <<>>
    ELSE LET first == CHOOSE i \in 1..Len(s) :
                          /\ ~IsWhitespace(s[i])
                          /\ \A j \in 1..(i - 1) : IsWhitespace(s[j])
             last == CHOOSE i \in 1..Len(s) :
                         /\ ~IsWhitespace(s[i])
                         /\ \A j \in (i + 1)..Len(s) : IsWhitespace(s[j])
         IN  SubSeq(s, first, last)

\* C11: in a parsed record body is Some(section 1, trimmed) exactly when
\* section 1 exists and is not blank, else None; footer likewise for
\* section 2; and the sections of index 3 and beyond change no field: the
\* record is the one parsed from the input cut off after section 2.
C11_BodyFooterAndIgnoredSections ==
    Parsed =>
        /\ result.body =
               IF Len(Sections) >= 2 /\ Stripped(Sections[2]) # <<>>
               THEN Some(Stripped(Sections[2])) ELSE None
        /\ result.footer =
               IF Len(Sections) >= 3 /\ Stripped(Sections[3]) # <<>>
               THEN Some(Stripped(Sections[3])) ELSE None
        /\ result = Parse(FirstThree)

\* a record with body and footer parsed from an input whose section of
\* index 3 is not blank
C11_Witness ==
    /\ Parsed
    /\ Len(Sections) >= 4
    /\ Stripped(Sections[4]) # <<>>
    /\ result.body # None
    /\ result.footer # None

(* -------------------------------- C12 ---------------------------------- *)

\* f neither begins nor ends with a whitespace character
NoOuterWhitespace(f) ==
    f = <<>> \/ (~IsWhitespace(f[1]) /\ ~IsWhitespace(f[Len(f)]))

\* f occurs in text as it stands, character for character
OccursIn(f, text) ==
    \E k \in 0..(Len(text) - Len(f)) : SubSeq(text, k + 1, k + Len(f)) = f

\* the text fields of a parsed record r (an absent field counts as empty)
FieldsOf(r) ==
    {r.commit_type, r.description}
        \cup {r.scope[i] : i \in 1..Len(r.scope)}
        \cup {r.body[i] : i \in 1..Len(r.body)}
        \cup {r.footer[i] : i \in 1..Len(r.footer)}

\* C12: in a parsed record none of commit_type, scope, description, body
\* and footer begins or ends with whitespace, and each is a piece of the
\* input taken as it stands, inner whitespace included.
C12_FieldsTrimmedVerbatim ==
    Parsed =>
        \A f \in FieldsOf(result) :
            NoOuterWhitespace(f) /\ OccursIn(f, input)

\* a record one of whose fields has whitespace inside, parsed from an
\* input with whitespace around its parts
C12_Witness ==
    /\ Parsed
    /\ \E f \in FieldsOf(result) : \E i \in 1..Len(f) : IsWhitespace(f[i])
    /\ input # <<>>
    /\ IsWhitespace(input[Len(input)])

(* -------------------------------- C13 ---------------------------------- *)

\* C13: only the first ':' of the header splits it: a parsed description is
\* the trimmed text after that ':' with its colons and parentheses kept,
\* and the error or the commit_type and scope are those of the header cut
\* off after its first ':'.
C13_FirstColonSplits ==
    (Done /\ Contains(Header, ":")) =>
        LET cut == Parse(MetaPart \o <<":">>)
        IN  /\ result.kind = cut.kind
            /\ result.kind # "ok" => result = cut
            /\ result.kind = "ok" =>
                   /\ result.commit_type = cut.commit_type
                   /\ result.scope = cut.scope
                   /\ result.description = Stripped(RestPart)

\* a record whose description holds a further ':' and a parenthesis
C13_Witness ==
    /\ Parsed
    /\ Contains(result.description, ":")
    /\ Contains(result.description, "(")
    /\ result.commit_type # <<>>

(* -------------------------------- C16 ---------------------------------- *)

\* every character of the text is whitespace (the empty text included)
Blank(text) == \A i \in 1..Len(text) : IsWhitespace(text[i])

\* C16: the split always yields at least one section, so parse never
\* returns "Empty commit message"; the empty and the whitespace-only input
\* fail with "Missing ':' in header".
C16_EmptyInputUnreachable ==
    Done =>
        /\ Len(Split(input)) >= 1
        /\ result # Err(EmptyInput)
        /\ Blank(input) => result = Err(MissingColon)

\* a whitespace-only input of several sections was parsed
C16_Witness ==
    /\ Done
    /\ input # <<>>
    /\ Blank(input)
    /\ Len(Split(input)) >= 2
    /\ result = Err(MissingColon)

(* -------------------------------- C17 ---------------------------------- *)

\* the header has a ':' and, before it, a '(' and then the first ')' with
\* a scope that is not blank between them
HasScope ==
    /\ Contains(Header, ":")
    /\ Contains(MetaPart, "(")
    /\ Find(MetaPart, ")") > Find(MetaPart, "(")
    /\ ~Blank(Slice(MetaPart, Find(MetaPart, "(") + 1, Find(MetaPart, ")")))

\* the text between the first ')' and the first ':' of such a header
AfterScope == Slice(MetaPart, Find(MetaPart, ")") + 1, Len(MetaPart))

\* C17: when the header has a parenthesized scope, the text between the
\* first ')' and the first ':' is dropped: parse succeeds, commit_type,
\* scope and description are the trimmed texts before the '(', between the
\* parentheses and after the ':', and breaking is set by the footer alone.
C17_TextAfterScopeDiscarded ==
    (Done /\ HasScope) =>
        /\ result.kind = "ok"
        /\ result.commit_type =
               Stripped(Slice(MetaPart, 0, Find(MetaPart, "(")))
        /\ result.scope =
               Some(Stripped(Slice(MetaPart, Find(MetaPart, "(") + 1,
                                   Find(MetaPart, ")"))))
        /\ result.description = Stripped(RestPart)
        /\ result.breaking =>
               (Len(Sections) >= 3 /\ Contains(Sections[3], "!"))

\* a header like a(a)!: was parsed, and the '!' set nothing
C17_Witness ==
    /\ Parsed
    /\ HasScope
    /\ Contains(AfterScope, "!")
    /\ ~Contains(result.commit_type, "!")
    /\ ~result.breaking

(* -------------------------------- C14 ---------------------------------- *)

\* C14: parse checks no field against the taxonomy: a well-formed message
\* parses whether or not its type is in TYPES and its scope in SCOPES, to
\* the record of the same message with the sanctioned feat and ui, but for
\* commit_type and scope, which are the texts given.
C14_TaxonomyNotEnforced ==
    Done =>
        \A t \in TypeCandidates :
            (Len(t) <= Len(input) /\ SubSeq(input, 1, Len(t)) = t) =>
                \A s \in ScopeCandidates, tail \in Tails :
                    input = Compose(t, s, tail) =>
                        LET sanctioned ==
                                Parse(Compose(TYPES[1], Some(SCOPES[2]), tail))
                        IN  /\ sanctioned.kind = "ok"
                            /\ result = [sanctioned EXCEPT !.commit_type = t,
                                                           !.scope = s]

\* a record whose type is not in TYPES and whose scope is not in SCOPES
C14_Witness ==
    /\ Parsed
    /\ result.commit_type \notin Range(TYPES)
    /\ result.scope # None
    /\ result.scope[1] \notin Range(SCOPES)

(* -------------------------------- C15 ---------------------------------- *)

\* no entry occurs twice
NoDuplicates(seq) ==
    \A i \in 1..Len(seq), j \in 1..Len(seq) : seq[i] = seq[j] => i = j

\* C15: what get_changelog returns is the constant data: types and scopes
\* without a duplicate and in their declared order (feat first, chore
\* last; core first, tests last), and breaking_marker "!", the character
\* whose presence in the footer is what parse reports as breaking.
C15_TaxonomyConstant ==
    changelog # NotFetched =>
        /\ NoDuplicates(changelog.types)
        /\ NoDuplicates(changelog.scopes)
        /\ changelog.types = TYPES
        /\ changelog.scopes = SCOPES
        /\ changelog.types[1] = <<"f", "e", "a", "t">>
        /\ changelog.types[Len(changelog.types)] = <<"c", "h", "o", "r", "e">>
        /\ changelog.scopes[1] = <<"c", "o", "r", "e">>
        /\ changelog.scopes[Len(changelog.scopes)] = <<"t", "e", "s", "t", "s">>
        /\ changelog.breaking_marker = <<"!">>
        /\ (Parsed /\ result.footer # None) =>
               ( result.breaking <=>
                     Contains(result.footer[1], changelog.breaking_marker[1]) )

\* the taxonomy was fetched and a footer with the marker was parsed
C15_Witness ==
    /\ changelog # NotFetched
    /\ Parsed
    /\ result.footer # None
    /\ result.breaking

(* -------------------------------- C18 ---------------------------------- *)

\* the prompt made of the fixed template and the diff the loop started with
TemplatePrompt ==
    <<"Generate">> \o
        (IF chat.diff = <<"diffA">> THEN <<"diffA">>
         ELSE <<"diffB", "<GIT_DIFF>">>)

\* C18: in the chat loop every commit-message request carries the prompt
\* made of the fixed template and the original diff; a refined prompt is
\* logged and printed once the loop is back at its top but is in no later
\* request; and the loop is left only after the user accepted a suggestion
\* or with the error of a call.
C18_ChatLoopFixedPrompt ==
    chat.pc # "idle" =>
        /\ \A i \in 1..Len(chat.queries) : chat.queries[i] = TemplatePrompt
        /\ (chat.pc = "query" /\ chat.refined # None) =>
               /\ chat.prompts # <<>>
               /\ chat.prompts[Len(chat.prompts)] = chat.refined[1]
               /\ chat.printed[Len(chat.printed)] = chat.refined[1]
        /\ chat.pc = "exit" =>
               \/ chat.outcome = "ok" /\ chat.accepted
               \/ chat.outcome = "err"
        /\ chat.pc # "exit" => chat.outcome = "running"

\* a request was made after a refined prompt that differs from the
\* template's had been logged
C18_Witness ==
    /\ chat.pc # "idle"
    /\ Len(chat.queries) >= 2
    /\ chat.refined # None
    /\ chat.refined[1] # TemplatePrompt
    /\ chat.prompts # <<>>
    /\ chat.pc = "log"

=============================================================================
